---- MODULE Spec2Model ----
(***************************************************************************)
(* Model of package osxkeychain (src/osxkeychain/osxkeychain.go): the      *)
(* keychain search (FindIdentity, FindAndValidateIdentity), the            *)
(* certificate extraction (GetCertificateDataFromIdentityRef), the PKCS12  *)
(* export (ExportFromKeychain) and the release helpers, run by a caller    *)
(* against a native layer whose every acquisition (create, copy, retain,   *)
(* malloc) and release (release, free) is logged.                          *)
(***************************************************************************)
EXTENDS Integers, Sequences, FiniteSets, TLC

VARIABLES
  store,     \* the keychain: the dictionaries SecItemCopyMatching returns, in order
  held,      \* the IdentityWithRefModel list the caller got from the last search
  holding,   \* the caller has searched and not yet released what it got
  owned,     \* per identity object: retains by the program not yet released
  acquires,  \* native create/copy/retain calls so far
  releases,  \* native CFRelease calls so far
  overRel,   \* a CFRelease hit an object the program held no reference to
  left,      \* calls of the package the caller still makes
  last       \* the last call: operation, arguments, results, native log

vars == <<store, held, holding, owned, acquires, releases, overRel, left, last>>

-----------------------------------------------------------------------------
(* Bounds of the model *)
MaxStore == 2
MaxLabelLen == 1
MaxCalls == 2

-----------------------------------------------------------------------------
(* Strings.  A character is a small number; NUL is the C string terminator *)
NUL == 0
Chars == {NUL, 1}
errSecSuccess == 0
\* OSStatus values other than errSecSuccess: errSecItemNotFound, userCanceledErr
FailStatuses == {-25300, -128}

SeqsUpTo(S, n) == UNION {[1..k -> S] : k \in 0..n}
Strings == SeqsUpTo(Chars, MaxLabelLen)

\* strings.Contains(s, substr)
Contains(s, substr) ==
  \E i \in 0..(Len(s) - Len(substr)) :
     \A j \in 1..Len(substr) : s[i + j] = substr[j]

\* C.GoString: the bytes before the first NUL
GoString(bytes) ==
  LET nuls == {i \in 1..Len(bytes) : bytes[i] = NUL}
      n == IF nuls = {} THEN Len(bytes)
           ELSE (CHOOSE i \in nuls : \A j \in nuls : i <= j) - 1
  IN SubSeq(bytes, 1, n)

-----------------------------------------------------------------------------
(* Native values: what a CFDictionary slot can hold *)
Val(t, c, i) == [type |-> t, chars |-> c, id |-> i]
Absent == Val("absent", <<>>, 0)          \* the key is not in the dictionary
NullVal == Val("null", <<>>, 0)           \* the key maps to NULL
NumberVal == Val("number", <<>>, 0)       \* a CFNumber: not a CFString
BadString == Val("badstring", <<>>, 0)    \* a CFString with no UTF-8 encoding
StringVal(s) == Val("string", s, 0)
IdentityVal(i) == Val("identity", <<>>, i)

LabelVals == {Absent, NullVal, NumberVal, BadString} \cup {StringVal(s) : s \in Strings}
\* the dictionary of the i-th identity: its label and the reference to the identity
Dicts(i) == [labl : LabelVals, v_Ref : {Absent, IdentityVal(i)}]
Stores == UNION {{s \in [1..n -> UNION {Dicts(i) : i \in 1..n}] :
                    \A i \in 1..n : s[i] \in Dicts(i)} : n \in 0..MaxStore}
Handles == 1..MaxStore

(* Go errors: a chain of messages, outermost first; nil is the empty chain *)
NoErr == <<>>
Err(msg, status) == <<[msg |-> msg, status |-> status]>>
Wrap(msg, e) == Err(msg, 0) \o e
Res(v, e) == [val |-> v, err |-> e]

\* events of the native log
Ev(op, kind, id) == [op |-> op, kind |-> kind, id |-> id]
AcquireOps == {"create", "copy", "retain"}

-----------------------------------------------------------------------------
(* UTIL METHODS *)

CFDictionaryGetValueIfPresent(dict, key) == dict[key] # Absent

\* getCFDictValueRef with an existence test that always reports "present"
getCFDictValueRefAlwaysPresent(dict, key) ==
  Res(IF dict[key] = Absent THEN NullVal ELSE dict[key], NoErr)

getCFDictValueRef(dict, key) ==
  IF ~CFDictionaryGetValueIfPresent(dict, key)
  THEN Res(NullVal, Err("getCFDictValueRef: Key doesn't exist", 0))
  ELSE Res(dict[key], NoErr)

getCFDictValueCFStringRef(dict, key) ==
  LET Checked(r) ==
        IF r.err # NoErr THEN Res(NullVal, r.err)
        ELSE IF r.val = NullVal
        THEN Res(NullVal, Err("getCFDictValueCFStringRef: Nil value returned", 0))
        ELSE IF r.val.type \notin {"string", "badstring"}
        THEN Res(NullVal, Err("getCFDictValueCFStringRef: value is not a string", 0))
        ELSE Res(r.val, NoErr)
  IN Checked(getCFDictValueRef(dict, key))

\* CFStringGetMaximumSizeForEncoding(strLen, kCFStringEncodingUTF8)
CFStringGetMaximumSizeForEncoding(strLen) == 3 * strLen

\* CFStringGetCString: the bytes written, terminator included; <<>> is failure
CFStringGetCString(v, bufferSize) ==
  IF v.type # "string" \/ Len(v.chars) + 1 > bufferSize THEN <<>>
  ELSE Append(v.chars, NUL)

getCFDictValueUTF8String(dict, key) ==
  LET Decoded(cstrBytes) ==
        IF cstrBytes = <<>>
        THEN Res(<<>>, Err("getCFDictValueUTF8String: CFStringGetCString: failed to convert value to string", 0))
        ELSE Res(GoString(cstrBytes), NoErr)
      Converted(valCFStringRef, strLen) ==
        Decoded(CFStringGetCString(valCFStringRef,
                                   CFStringGetMaximumSizeForEncoding(strLen) + 1))
      Checked(r) ==
        IF r.err # NoErr THEN Res(<<>>, r.err)
        ELSE IF r.val = NullVal
        THEN Res(<<>>, Err("getCFDictValueUTF8String: Nil value", 0))
        ELSE Converted(r.val, Len(r.val.chars))
  IN Checked(getCFDictValueCFStringRef(dict, key))

-----------------------------------------------------------------------------
(* FindIdentity *)

\* the label test of the filter loop
LabelMatches(labl, identityLabel, isFullLabelMatch) ==
  IF isFullLabelMatch THEN labl = identityLabel
  ELSE Contains(labl, identityLabel)

\* the two deferred C.free calls of iteration i, run in reverse order
IterationDefers(i) == <<Ev("free", "cstr_vref", i), Ev("free", "cstr_labl", i)>>

RECURSIVE DefersOfIterations(_)
DefersOfIterations(n) ==
  IF n = 0 THEN <<>> ELSE IterationDefers(n) \o DefersOfIterations(n - 1)

\* FindIdentityLoop with `continue` where it returns the extraction error
RECURSIVE FindIdentityLoopSkipsFailures(_, _, _, _, _, _)
FindIdentityLoopSkipsFailures(arr, i, identityLabel, isFullLabelMatch, retIdentityRefs, log) ==
  LET log1 == log \o <<Ev("malloc", "cstr_labl", i), Ev("malloc", "cstr_vref", i),
                       Ev("create", "cfstr_labl", i)>>
      log2 == Append(log1, Ev("create", "cfstr_vref", i))
      WithRef(labl, vrefRef) ==
        IF vrefRef.err # NoErr
        THEN FindIdentityLoopSkipsFailures(arr, i + 1, identityLabel, isFullLabelMatch,
                                           retIdentityRefs, log2)
        ELSE FindIdentityLoopSkipsFailures(arr, i + 1, identityLabel, isFullLabelMatch,
               Append(retIdentityRefs,
                      [KeychainRef |-> vrefRef.val.id, Label |-> labl]),
               Append(log2, Ev("retain", "identity", vrefRef.val.id)))
      WithLabel(labl) ==
        IF labl.err # NoErr \/ ~LabelMatches(labl.val, identityLabel, isFullLabelMatch)
        THEN FindIdentityLoopSkipsFailures(arr, i + 1, identityLabel, isFullLabelMatch,
                                           retIdentityRefs, log1)
        ELSE WithRef(labl.val, getCFDictValueRef(arr[i], "v_Ref"))
  IN IF i > Len(arr)
     THEN [ret |-> retIdentityRefs, err |-> NoErr, log |-> log, iters |-> Len(arr)]
     ELSE WithLabel(getCFDictValueUTF8String(arr[i], "labl"))

\* the loop from entry i on: the records, the error, the log and the
\* number of iterations entered (each has deferred two frees)
RECURSIVE FindIdentityLoop(_, _, _, _, _, _)
FindIdentityLoop(arr, i, identityLabel, isFullLabelMatch, retIdentityRefs, log) ==
  LET log1 == log \o <<Ev("malloc", "cstr_labl", i), Ev("malloc", "cstr_vref", i),
                       Ev("create", "cfstr_labl", i)>>
      log2 == Append(log1, Ev("create", "cfstr_vref", i))
      WithRef(labl, vrefRef) ==
        IF vrefRef.err # NoErr
        THEN [ret |-> <<>>,
              err |-> Wrap("FindIdentity: failed to get 'v_Ref' property", vrefRef.err),
              log |-> log2, iters |-> i]
        ELSE FindIdentityLoop(arr, i + 1, identityLabel, isFullLabelMatch,
               Append(retIdentityRefs,
                      [KeychainRef |-> vrefRef.val.id, Label |-> labl]),
               Append(log2, Ev("retain", "identity", vrefRef.val.id)))
      WithLabel(labl) ==
        IF labl.err # NoErr
        THEN [ret |-> <<>>,
              err |-> Wrap("FindIdentity: failed to get 'labl' property", labl.err),
              log |-> log1, iters |-> i]
        ELSE IF ~LabelMatches(labl.val, identityLabel, isFullLabelMatch)
        THEN FindIdentityLoop(arr, i + 1, identityLabel, isFullLabelMatch,
                              retIdentityRefs, log1)
        ELSE WithRef(labl.val, getCFDictValueRef(arr[i], "v_Ref"))
  IN IF i > Len(arr)
     THEN [ret |-> retIdentityRefs, err |-> NoErr, log |-> log, iters |-> Len(arr)]
     ELSE WithLabel(getCFDictValueUTF8String(arr[i], "labl"))

\* FindIdentity without the identitiesCount < 1 test
FindIdentityNoCountCheck(arr, osStatusCode, identityLabel, isFullLabelMatch) ==
  LET log0 == <<Ev("create", "queryDict", 0)>>
      Returned(r) ==
        [ret |-> r.ret, err |-> r.err,
         log |-> r.log \o DefersOfIterations(r.iters)
                 \o <<Ev("release", "resultRefs", 0), Ev("release", "queryDict", 0)>>]
  IN IF osStatusCode # errSecSuccess
     THEN [ret |-> <<>>,
           err |-> Err("Failed to call SecItemCopyMatch - OSStatus", osStatusCode),
           log |-> Append(log0, Ev("release", "queryDict", 0))]
     ELSE Returned(FindIdentityLoop(arr, 1, identityLabel, isFullLabelMatch, <<>>,
                                    Append(log0, Ev("copy", "resultRefs", 0))))

\* FindIdentity releasing resultRefs before the loop instead of deferring it
FindIdentityReleasesArrayFirst(arr, osStatusCode, identityLabel, isFullLabelMatch) ==
  LET log0 == <<Ev("create", "queryDict", 0)>>
      log1 == log0 \o <<Ev("copy", "resultRefs", 0), Ev("release", "resultRefs", 0)>>
      Returned(r) ==
        [ret |-> r.ret, err |-> r.err,
         log |-> r.log \o DefersOfIterations(r.iters) \o <<Ev("release", "queryDict", 0)>>]
  IN IF osStatusCode # errSecSuccess
     THEN [ret |-> <<>>,
           err |-> Err("Failed to call SecItemCopyMatch - OSStatus", osStatusCode),
           log |-> Append(log0, Ev("release", "queryDict", 0))]
     ELSE IF Len(arr) < 1
     THEN [ret |-> <<>>,
           err |-> Err("No Identity (certificate + related private key) found in your Keychain!", 0),
           log |-> Append(log1, Ev("release", "queryDict", 0))]
     ELSE Returned(FindIdentityLoop(arr, 1, identityLabel, isFullLabelMatch, <<>>, log1))

\* osStatusCode and arr are what SecItemCopyMatching answers
FindIdentity(arr, osStatusCode, identityLabel, isFullLabelMatch) ==
  LET log0 == <<Ev("create", "queryDict", 0)>>
      relQuery == <<Ev("release", "queryDict", 0)>>
      relResult == <<Ev("release", "resultRefs", 0)>>
      \* the deferred calls run when the loop has returned
      Returned(r) ==
        [ret |-> r.ret, err |-> r.err,
         log |-> r.log \o DefersOfIterations(r.iters) \o relResult \o relQuery]
  IN IF osStatusCode # errSecSuccess
     THEN [ret |-> <<>>,
           err |-> Err("Failed to call SecItemCopyMatch - OSStatus", osStatusCode),
           log |-> log0 \o relQuery]
     ELSE IF Len(arr) < 1
     THEN [ret |-> <<>>,
           err |-> Err("No Identity (certificate + related private key) found in your Keychain!", 0),
           log |-> Append(log0, Ev("copy", "resultRefs", 0)) \o relResult \o relQuery]
     ELSE Returned(FindIdentityLoop(arr, 1, identityLabel, isFullLabelMatch, <<>>,
                                    Append(log0, Ev("copy", "resultRefs", 0))))

-----------------------------------------------------------------------------
(* GetCertificateDataFromIdentityRef *)

\* What the native layer and the collaborators answer for one identity:
\* the status of SecIdentityCopyCertificate, the CFData of SecCertificateCopyData
\* (null, or its bytes) and the verdict of certutil.CheckCertificateValidity.
DER == <<"der">>
CertOut(st, null, bytes, valid) ==
  [status |-> st, null |-> null, bytes |-> bytes, valid |-> valid]
GoodCert == CertOut(errSecSuccess, FALSE, DER, TRUE)
CertOutcomes ==
  {CertOut(-25300, FALSE, DER, TRUE),
   CertOut(errSecSuccess, TRUE, <<>>, TRUE),
   CertOut(errSecSuccess, FALSE, <<>>, TRUE),
   CertOut(errSecSuccess, FALSE, <<"junk">>, TRUE),
   CertOut(errSecSuccess, FALSE, DER, FALSE),
   GoodCert}

\* C.GoBytes over CFDataGetBytePtr and CFDataGetLength
convertCFDataRefToGoBytes(cfdata) == cfdata

\* x509.ParseCertificate: only a DER certificate parses
ParseCertificate(certData) ==
  IF certData = DER THEN Res(TRUE, NoErr)
  ELSE Res(FALSE, Err("x509.ParseCertificate", 0))

GetCertificateDataFromIdentityRef(identityRef, out) ==
  IF out.status # errSecSuccess
  THEN [cert |-> FALSE,
        err |-> Err("Failed to call SecItemCopyMatch - OSStatus", out.status),
        log |-> <<>>]
  ELSE
    LET log1 == <<Ev("copy", "secCertificateRef", identityRef)>>
        Returned(parsed) ==
          [cert |-> parsed.val, err |-> parsed.err,
           log |-> log1 \o <<Ev("copy", "certificateCFData", identityRef),
                             Ev("release", "certificateCFData", identityRef)>>]
    IN IF out.null
       THEN [cert |-> FALSE,
             err |-> Err("GetCertificateDataFromIdentityRef: SecCertificateCopyData: Failed to convert certificate data", 0),
             log |-> log1]
       ELSE Returned(ParseCertificate(convertCFDataRefToGoBytes(out.bytes)))

-----------------------------------------------------------------------------
(* FindAndValidateIdentity *)

\* ValidityLoop without the `continue` of an invalid certificate
RECURSIVE ValidityLoopKeepsInvalid(_, _, _, _, _)
ValidityLoopKeepsInvalid(foundIdentityRefs, k, outs, validIdentityRefs, log) ==
  LET Checked(aIdentityRef, c) ==
        IF c.err # NoErr
        THEN [ret |-> validIdentityRefs,
              err |-> Wrap("Failed to read certificate data, error", c.err),
              log |-> log \o c.log, examined |-> k]
        ELSE ValidityLoopKeepsInvalid(foundIdentityRefs, k + 1, outs,
                                      Append(validIdentityRefs, aIdentityRef),
                                      log \o c.log)
  IN IF k > Len(foundIdentityRefs)
     THEN [ret |-> validIdentityRefs, err |-> NoErr, log |-> log,
           examined |-> Len(foundIdentityRefs)]
     ELSE Checked(foundIdentityRefs[k],
                  GetCertificateDataFromIdentityRef(foundIdentityRefs[k].KeychainRef,
                                                    outs[k]))

\* ValidityLoop returning nil, not validIdentityRefs, with the extraction error
RECURSIVE ValidityLoopDropsPartial(_, _, _, _, _)
ValidityLoopDropsPartial(foundIdentityRefs, k, outs, validIdentityRefs, log) ==
  LET Checked(aIdentityRef, c) ==
        IF c.err # NoErr
        THEN [ret |-> <<>>,
              err |-> Wrap("Failed to read certificate data, error", c.err),
              log |-> log \o c.log, examined |-> k]
        ELSE IF ~outs[k].valid
        THEN ValidityLoopDropsPartial(foundIdentityRefs, k + 1, outs,
                                      validIdentityRefs, log \o c.log)
        ELSE ValidityLoopDropsPartial(foundIdentityRefs, k + 1, outs,
                                      Append(validIdentityRefs, aIdentityRef),
                                      log \o c.log)
  IN IF k > Len(foundIdentityRefs)
     THEN [ret |-> validIdentityRefs, err |-> NoErr, log |-> log,
           examined |-> Len(foundIdentityRefs)]
     ELSE Checked(foundIdentityRefs[k],
                  GetCertificateDataFromIdentityRef(foundIdentityRefs[k].KeychainRef,
                                                    outs[k]))

\* the validity loop from candidate k on; outs[k] is what the native layer
\* and certutil.CheckCertificateValidity answer for the k-th candidate
RECURSIVE ValidityLoop(_, _, _, _, _)
ValidityLoop(foundIdentityRefs, k, outs, validIdentityRefs, log) ==
  LET Checked(aIdentityRef, c) ==
        IF c.err # NoErr
        THEN [ret |-> validIdentityRefs,
              err |-> Wrap("Failed to read certificate data, error", c.err),
              log |-> log \o c.log, examined |-> k]
        ELSE IF ~outs[k].valid
        THEN ValidityLoop(foundIdentityRefs, k + 1, outs, validIdentityRefs,
                          log \o c.log)
        ELSE ValidityLoop(foundIdentityRefs, k + 1, outs,
                          Append(validIdentityRefs, aIdentityRef), log \o c.log)
  IN IF k > Len(foundIdentityRefs)
     THEN [ret |-> validIdentityRefs, err |-> NoErr, log |-> log,
           examined |-> Len(foundIdentityRefs)]
     ELSE Checked(foundIdentityRefs[k],
                  GetCertificateDataFromIdentityRef(foundIdentityRefs[k].KeychainRef,
                                                    outs[k]))

FindAndValidateIdentity(arr, osStatusCode, identityLabel, isFullLabelMatch, outs) ==
  LET Validated(f, v) ==
        [ret |-> v.ret, err |-> v.err, log |-> v.log, found |-> f.ret,
         examined |-> v.examined]
      Found(f) ==
        IF f.err # NoErr
        THEN [ret |-> <<>>, err |-> Wrap("Failed to find Identity, error", f.err),
              log |-> f.log, found |-> f.ret, examined |-> 0]
        ELSE IF Len(f.ret) < 1
        THEN [ret |-> <<>>, err |-> NoErr, log |-> f.log, found |-> f.ret,
              examined |-> 0]
        ELSE Validated(f, ValidityLoop(f.ret, 1, outs, <<>>, f.log))
  IN Found(FindIdentity(arr, osStatusCode, identityLabel, isFullLabelMatch))

-----------------------------------------------------------------------------
(* ExportFromKeychain *)

kSecKeySecurePassphrase == 2
NoParams == [flags |-> 0, passphrase |-> Absent, alertPrompt |-> Absent]

\* What SecItemExport and fileutil.WriteBytesToFile answer
ExportOut(st, bytes, werr) == [status |-> st, bytes |-> bytes, writeErr |-> werr]
WriteFailure == Err("open: permission denied", 0)
ExportOutcomes ==
  {ExportOut(st, <<>>, NoErr) : st \in FailStatuses} \cup
  {ExportOut(errSecSuccess, <<>>, NoErr),
   ExportOut(errSecSuccess, <<"p12">>, WriteFailure),
   ExportOut(errSecSuccess, <<"p12">>, NoErr)}

\* ExportParams with the secure-passphrase flag left set on the else branch
ExportParamsFlagAlways(isAskForPassword) ==
  IF isAskForPassword
  THEN [flags |-> kSecKeySecurePassphrase, passphrase |-> NullVal,
        alertPrompt |-> StringVal(<<>>)]
  ELSE [flags |-> kSecKeySecurePassphrase, passphrase |-> StringVal(<<>>),
        alertPrompt |-> NullVal]

\* the export parameters and the log up to them
ExportParams(isAskForPassword) ==
  IF isAskForPassword
  THEN [flags |-> kSecKeySecurePassphrase, passphrase |-> NullVal,
        alertPrompt |-> StringVal(<<>>)]
  ELSE [flags |-> 0, passphrase |-> StringVal(<<>>), alertPrompt |-> NullVal]

ExportParamsLog(isAskForPassword) ==
  IF isAskForPassword
  THEN <<Ev("malloc", "passphraseCString", 0), Ev("malloc", "promptText", 0),
         Ev("create", "alertPrompt", 0)>>
  ELSE <<Ev("malloc", "passphraseCString", 0), Ev("create", "passphrase", 0)>>

\* the deferred C.free calls, last deferred first
ExportFrees(isAskForPassword) ==
  IF isAskForPassword
  THEN <<Ev("free", "promptText", 0), Ev("free", "passphraseCString", 0)>>
  ELSE <<Ev("free", "passphraseCString", 0)>>

\* CFArrayCreate with kCFTypeArrayCallBacks retains every element
CFArrayCreate(itemRefsToExport) ==
  <<Ev("create", "cfArrayForExport", 0)>> \o
  [i \in 1..Len(itemRefsToExport) |-> Ev("retainByArray", "identity", itemRefsToExport[i])]

ExportResult(err, panicked, log, exported, params, writes) ==
  [err |-> err, panicked |-> panicked, log |-> log, exported |-> exported,
   params |-> params, writes |-> writes]

\* ExportFromKeychain without the test for nil or empty export data
ExportFromKeychainNoEmptyCheck(itemRefsToExport, outputFilePath, isAskForPassword, out) ==
  LET Exported(exportParams, log2, frees) ==
        IF out.status # errSecSuccess
        THEN ExportResult(Err("SecItemExport: error (OSStatus)", out.status), FALSE,
                          log2 \o frees, TRUE, exportParams, <<>>)
        ELSE ExportResult(
               IF out.writeErr # NoErr
               THEN Wrap("ExportFromKeychain: failed to write into file", out.writeErr)
               ELSE NoErr,
               FALSE,
               log2 \o <<Ev("copy", "exportedData", 0), Ev("release", "exportedData", 0)>>
                    \o frees,
               TRUE, exportParams,
               <<[path |-> outputFilePath, bytes |-> convertCFDataRefToGoBytes(out.bytes)]>>)
  IN IF Len(itemRefsToExport) = 0
     THEN ExportResult(NoErr, TRUE,
                       ExportParamsLog(isAskForPassword) \o ExportFrees(isAskForPassword),
                       FALSE, NoParams, <<>>)
     ELSE Exported(ExportParams(isAskForPassword),
                   ExportParamsLog(isAskForPassword) \o CFArrayCreate(itemRefsToExport),
                   ExportFrees(isAskForPassword))

ExportFromKeychain(itemRefsToExport, outputFilePath, isAskForPassword, out) ==
  LET Exported(exportParams, log2, frees) ==
        IF out.status # errSecSuccess
        THEN ExportResult(Err("SecItemExport: error (OSStatus)", out.status), FALSE,
                          log2 \o frees, TRUE, exportParams, <<>>)
        ELSE IF Len(convertCFDataRefToGoBytes(out.bytes)) < 1
        THEN ExportResult(
               Err("ExportFromKeychain: failed to convert export data - nil or empty", 0),
               FALSE,
               log2 \o <<Ev("copy", "exportedData", 0), Ev("release", "exportedData", 0)>>
                    \o frees,
               TRUE, exportParams, <<>>)
        ELSE ExportResult(
               IF out.writeErr # NoErr
               THEN Wrap("ExportFromKeychain: failed to write into file", out.writeErr)
               ELSE NoErr,
               FALSE,
               log2 \o <<Ev("copy", "exportedData", 0), Ev("release", "exportedData", 0)>>
                    \o frees,
               TRUE, exportParams,
               <<[path |-> outputFilePath, bytes |-> convertCFDataRefToGoBytes(out.bytes)]>>)
  IN IF Len(itemRefsToExport) = 0
     THEN \* &itemRefsToExport[0]: index out of range; the deferred frees run
          ExportResult(NoErr, TRUE,
                       ExportParamsLog(isAskForPassword) \o ExportFrees(isAskForPassword),
                       FALSE, NoParams, <<>>)
     ELSE Exported(ExportParams(isAskForPassword),
                   ExportParamsLog(isAskForPassword) \o CFArrayCreate(itemRefsToExport),
                   ExportFrees(isAskForPassword))

-----------------------------------------------------------------------------
(* ReleaseRef, ReleaseIdentityWithRefList *)

ReleaseRef(refItem) == <<Ev("release", "identity", refItem)>>

RECURSIVE ReleaseIdentityWithRefList(_)
ReleaseIdentityWithRefList(refItems) ==
  IF refItems = <<>> THEN <<>>
  ELSE ReleaseRef(Head(refItems).KeychainRef) \o ReleaseIdentityWithRefList(Tail(refItems))

-----------------------------------------------------------------------------
(* The native layer's bookkeeping of a call's log *)

Count(log, ops) == Cardinality({i \in 1..Len(log) : log[i].op \in ops})

\* what the program holds of identity h after the log: its retains less its
\* releases, a release of an object it holds nothing of being dropped
RECURSIVE OwnedAfter(_, _, _)
OwnedAfter(n, log, h) ==
  IF log = <<>> THEN n
  ELSE LET e == Head(log)
           m == IF e.kind = "identity" /\ e.id = h
                THEN (IF e.op = "retain" THEN n + 1
                      ELSE IF e.op = "release" /\ n > 0 THEN n - 1 ELSE n)
                ELSE n
       IN OwnedAfter(m, Tail(log), h)

\* acquisitions of the object (kind, id) among the first n events, less releases
Balance(log, n, kind, id) ==
  Cardinality({i \in 1..n : log[i].kind = kind /\ log[i].id = id
                            /\ log[i].op \in AcquireOps \cup {"malloc"}})
  - Cardinality({i \in 1..n : log[i].kind = kind /\ log[i].id = id
                              /\ log[i].op \in {"release", "free"}})

\* some release in the log hits an object the program holds no reference to
OverRelease(own, log) ==
  \E i \in 1..Len(log) :
     /\ log[i].op \in {"release", "free"}
     /\ Balance(log, i - 1, log[i].kind, log[i].id)
          + (IF log[i].kind = "identity" THEN own[log[i].id] ELSE 0) < 1

-----------------------------------------------------------------------------
(* The caller: it searches, uses what it got (certificates, export), and  *)
(* hands the list back to ReleaseIdentityWithRefList before it searches    *)
(* again.                                                                  *)

\* keychains whose identities carry the same one-letter label, or none
PlainStores ==
  {s \in Stores : \A i \in 1..Len(s) : s[i].labl \in {Absent, StringVal(<<1>>)}}

Start(stores, calls) ==
  /\ store \in stores
  /\ held = <<>>
  /\ holding = FALSE
  /\ owned = [h \in Handles |-> 0]
  /\ acquires = 0
  /\ releases = 0
  /\ overRel = FALSE
  /\ left = calls
  /\ last = [op |-> "none"]

\* a caller that makes MaxCalls calls against a plain keychain
Init == Start(PlainStores, MaxCalls)

\* a caller that searches any keychain once
InitSearch == Start(Stores, 1)

\* the native layer after a call that left `log`
Account(log) ==
  /\ owned' = [h \in Handles |-> OwnedAfter(owned[h], log, h)]
  /\ acquires' = acquires + Count(log, AcquireOps)
  /\ releases' = releases + Count(log, {"release"})
  /\ overRel' = (overRel \/ OverRelease(owned, log))

Statuses == {errSecSuccess, -25300}

CallFindIdentity ==
  /\ left > 0
  /\ ~holding
  /\ \E st \in Statuses, identityLabel \in Strings, isFullLabelMatch \in BOOLEAN :
       LET Returned(r) ==
             /\ last' = [op |-> "FindIdentity", status |-> st, label |-> identityLabel,
                         full |-> isFullLabelMatch, ret |-> r.ret, err |-> r.err,
                         log |-> r.log]
             /\ held' = r.ret
             /\ Account(r.log)
       IN Returned(FindIdentity(store, st, identityLabel, isFullLabelMatch))
  /\ holding' = TRUE
  /\ left' = left - 1
  /\ UNCHANGED store

\* the answers for n candidates; those for candidates the loop never
\* reaches (past the last one, past a failed extraction) are not drawn
ExtractionFails(out) ==
  out.status # errSecSuccess \/ out.null \/ ParseCertificate(out.bytes).err # NoErr
OutsFor(n) ==
  {outs \in [1..MaxStore -> CertOutcomes] :
     \A k \in 1..MaxStore :
        (k > n \/ \E j \in 1..(k - 1) : ExtractionFails(outs[j])) => outs[k] = GoodCert}

CallFindAndValidateIdentity ==
  /\ left > 0
  /\ ~holding
  /\ \E st \in Statuses, identityLabel \in Strings, isFullLabelMatch \in BOOLEAN :
     \E outs \in OutsFor(Len(FindIdentity(store, st, identityLabel,
                                          isFullLabelMatch).ret)) :
       LET Returned(r) ==
             /\ last' = [op |-> "FindAndValidateIdentity", status |-> st,
                         label |-> identityLabel, full |-> isFullLabelMatch,
                         outs |-> outs, found |-> r.found, examined |-> r.examined,
                         ret |-> r.ret, err |-> r.err, log |-> r.log]
             /\ held' = r.ret
             /\ Account(r.log)
       IN Returned(FindAndValidateIdentity(store, st, identityLabel,
                                           isFullLabelMatch, outs))
  /\ holding' = TRUE
  /\ left' = left - 1
  /\ UNCHANGED store

CallGetCertificateDataFromIdentityRef ==
  /\ left > 0
  /\ \E i \in 1..Len(held), out \in CertOutcomes :
       LET Returned(r) ==
             /\ last' = [op |-> "GetCertificateDataFromIdentityRef",
                         ref |-> held[i].KeychainRef, out |-> out,
                         cert |-> r.cert, err |-> r.err, log |-> r.log]
             /\ Account(r.log)
       IN Returned(GetCertificateDataFromIdentityRef(held[i].KeychainRef, out))
  /\ left' = left - 1
  /\ UNCHANGED <<store, held, holding>>

\* the caller exports the first n identities it holds; n = 0 is the empty
\* list, for which SecItemExport is never asked
CallExportFromKeychain ==
  /\ left > 0
  /\ \E n \in 0..Len(held), isAskForPassword \in BOOLEAN, out \in ExportOutcomes :
       LET Returned(items, r) ==
             /\ last' = [op |-> "ExportFromKeychain", items |-> items,
                         ask |-> isAskForPassword, out |-> out, err |-> r.err,
                         panicked |-> r.panicked, exported |-> r.exported,
                         params |-> r.params, writes |-> r.writes, log |-> r.log]
             /\ Account(r.log)
           Export(items) ==
             Returned(items, ExportFromKeychain(items, "identities.p12",
                                                isAskForPassword, out))
       IN /\ n = 0 => out = ExportOut(errSecSuccess, <<"p12">>, NoErr)
          /\ Export([i \in 1..n |-> held[i].KeychainRef])
  /\ left' = left - 1
  /\ UNCHANGED <<store, held, holding>>

CallReleaseIdentityWithRefList ==
  /\ holding
  /\ LET Returned(log) ==
           /\ last' = [op |-> "ReleaseIdentityWithRefList", log |-> log]
           /\ Account(log)
     IN Returned(ReleaseIdentityWithRefList(held))
  /\ held' = <<>>
  /\ holding' = FALSE
  /\ UNCHANGED <<store, left>>

Next ==
  \/ CallFindIdentity
  \/ CallFindAndValidateIdentity
  \/ CallGetCertificateDataFromIdentityRef
  \/ CallExportFromKeychain
  \/ CallReleaseIdentityWithRefList

Spec == Init /\ [][Next]_vars

NextSearch ==
  \/ CallFindIdentity
  \/ CallFindAndValidateIdentity
  \/ CallReleaseIdentityWithRefList

SpecSearch == InitSearch /\ [][NextSearch]_vars

-----------------------------------------------------------------------------
(* Properties *)

IsError(e, msg) == e # NoErr /\ e[1].msg = msg
IsNotFoundError(e) ==
  IsError(e, "No Identity (certificate + related private key) found in your Keychain!")
IsParseError(e) == IsError(e, "x509.ParseCertificate")
IsNativeFailure(e) ==
  \/ IsError(e, "Failed to call SecItemCopyMatch - OSStatus")
  \/ IsError(e, "GetCertificateDataFromIdentityRef: SecCertificateCopyData: Failed to convert certificate data")

HandlesOf(refs) == [k \in 1..Len(refs) |-> refs[k].KeychainRef]

\* C1: once the caller has released every record it was given, the native
\* acquire calls (create, copy, retain) made so far equal the release calls,
\* and no release ever hit an object whose count was zero.
C1_AcquireReleaseBalance ==
  ~holding => (acquires = releases /\ ~overRel)

\* the handles of the entries from i on whose label, as the keychain holds
\* it, equals the label asked for (full match) or contains it
RECURSIVE MatchingHandles(_, _, _, _)
MatchingHandles(arr, i, identityLabel, isFullLabelMatch) ==
  IF i > Len(arr) THEN <<>>
  ELSE (IF /\ arr[i].labl.type = "string"
           /\ IF isFullLabelMatch THEN arr[i].labl.chars = identityLabel
              ELSE Contains(arr[i].labl.chars, identityLabel)
        THEN <<i>> ELSE <<>>)
       \o MatchingHandles(arr, i + 1, identityLabel, isFullLabelMatch)

\* C2: a successful FindIdentity returns exactly the entries of the keychain
\* whose label equals (full match) or contains (otherwise) the label asked
\* for, in keychain order.
C2_ExactLabelFilter ==
  (last.op = "FindIdentity" /\ last.err = NoErr) =>
     HandlesOf(last.ret) = MatchingHandles(store, 1, last.label, last.full)

\* every label of the array can be read and none passes the filter
NoLabelMatches(arr, identityLabel, isFullLabelMatch) ==
  \A i \in 1..Len(arr) :
     /\ getCFDictValueUTF8String(arr[i], "labl").err = NoErr
     /\ ~LabelMatches(getCFDictValueUTF8String(arr[i], "labl").val,
                      identityLabel, isFullLabelMatch)

RECURSIVE ValidOnes(_, _, _, _)
ValidOnes(found, outs, k, n) ==
  IF k > n THEN <<>>
  ELSE (IF outs[k].valid THEN <<found[k]>> ELSE <<>>) \o ValidOnes(found, outs, k + 1, n)

\* what FindIdentity finds for the arguments of the last search
Candidates == FindIdentity(store, last.status, last.label, last.full)

\* C4: when no certificate extraction fails, FindAndValidateIdentity returns
\* exactly the candidates of FindIdentity whose certificate is valid, in
\* discovery order; when an extraction fails, it returns an error.
C4_ValidCandidatesInOrder ==
  (last.op = "FindAndValidateIdentity" /\ Candidates.err = NoErr) =>
     /\ (\A k \in 1..Len(Candidates.ret) : ~ExtractionFails(last.outs[k]))
        => /\ last.err = NoErr
           /\ last.ret = ValidOnes(Candidates.ret, last.outs, 1, Len(Candidates.ret))
     /\ (\E k \in 1..Len(Candidates.ret) : ExtractionFails(last.outs[k]))
        => last.err # NoErr

\* an invalid candidate was skipped and a later valid one kept
C4_Witness ==
  /\ last.op = "FindAndValidateIdentity"
  /\ last.err = NoErr
  /\ Len(last.found) >= 2
  /\ \E j, k \in 1..Len(last.found) :
        j < k /\ ~last.outs[j].valid /\ last.outs[k].valid
  /\ Len(last.ret) = 1

\* C5: ExportFromKeychain with no identities returns an error value and makes
\* no native call.
C5_EmptyExportRejected ==
  (last.op = "ExportFromKeychain" /\ last.items = <<>>) =>
     (~last.panicked /\ last.err # NoErr /\ last.log = <<>>)

SecurePassphraseFlagSet(params) == (params.flags \div kSecKeySecurePassphrase) % 2 = 1

\* C6: in the parameters given to SecItemExport the secure-passphrase flag is
\* set exactly when the caller asked for the prompt, a passphrase is supplied
\* exactly when the flag is not set, and without the prompt that passphrase
\* is the empty string.
C6_PromptFlagIffAsked ==
  (last.op = "ExportFromKeychain" /\ last.exported) =>
     /\ SecurePassphraseFlagSet(last.params) <=> last.ask
     /\ (last.params.passphrase # NullVal) <=> ~SecurePassphraseFlagSet(last.params)
     /\ ~last.ask => /\ ~SecurePassphraseFlagSet(last.params)
                     /\ last.params.passphrase = StringVal(<<>>)

C6_Witness ==
  /\ last.op = "ExportFromKeychain"
  /\ last.exported
  /\ ~last.ask
  /\ last.params.flags = 0
  /\ last.params.passphrase = StringVal(<<>>)

\* every object the log creates or copies is released once by its end
ReleasedOnce(log) ==
  \A i \in 1..Len(log) :
     log[i].op \in {"create", "copy"} => Balance(log, Len(log), log[i].kind, log[i].id) = 0

\* C7: when ExportFromKeychain returns, every native object it created
\* (passphrase string, prompt string, array, exported data) has been released
\* once.
C7_ExportReleasesTransients ==
  (last.op = "ExportFromKeychain" /\ ~last.panicked) =>
     (ReleasedOnce(last.log) /\ ~OverRelease(owned, last.log))

\* the loop cannot read the label of entry i, or accepts it and cannot read
\* its reference
ExtractionFailsAt(arr, i, identityLabel, isFullLabelMatch) ==
  \/ getCFDictValueUTF8String(arr[i], "labl").err # NoErr
  \/ /\ LabelMatches(getCFDictValueUTF8String(arr[i], "labl").val,
                     identityLabel, isFullLabelMatch)
     /\ getCFDictValueRef(arr[i], "v_Ref").err # NoErr

\* C8: if the label or the reference of any entry cannot be extracted,
\* FindIdentity returns an error and no record.
C8_ExtractionFailureDiscardsAll ==
  (/\ last.op = "FindIdentity"
   /\ last.status = errSecSuccess
   /\ \E i \in 1..Len(store) : ExtractionFailsAt(store, i, last.label, last.full))
  => (last.err # NoErr /\ last.ret = <<>>)

\* an entry was accepted and retained before the failing one
C8_Witness ==
  /\ last.op = "FindIdentity"
  /\ last.err # NoErr
  /\ \E i \in 1..Len(last.log) : last.log[i].op = "retain"
  /\ ExtractionFailsAt(store, Len(store), last.label, last.full)
  /\ last.ret = <<>>

\* the native log shows a certificate asked for identity h
CertificateAsked(log, h) ==
  \E i \in 1..Len(log) :
     log[i].kind \in {"secCertificateRef", "certificateCFData"} /\ log[i].id = h

\* C9: when the certificate extraction fails for the k-th candidate,
\* FindAndValidateIdentity returns an error with exactly the valid ones among
\* the candidates before k, in order, and asks nothing about the later ones.
C9_PartialListWithError ==
  (last.op = "FindAndValidateIdentity" /\ Candidates.err = NoErr) =>
     \A k \in 1..Len(Candidates.ret) :
        (/\ ExtractionFails(last.outs[k])
         /\ \A j \in 1..(k - 1) : ~ExtractionFails(last.outs[j]))
        => /\ last.err # NoErr
           /\ last.ret = ValidOnes(Candidates.ret, last.outs, 1, k - 1)
           /\ \A j \in (k + 1)..Len(Candidates.ret) :
                 ~CertificateAsked(last.log, Candidates.ret[j].KeychainRef)

\* the second candidate fails after the first was kept
C9_Witness ==
  /\ last.op = "FindAndValidateIdentity"
  /\ last.err # NoErr
  /\ Len(last.found) >= 2
  /\ ExtractionFails(last.outs[2])
  /\ Len(last.ret) = 1

\* C10: GetCertificateDataFromIdentityRef answers zero-length certificate
\* data with an error of its own, not the parser's; the parser's error is
\* returned only for non-empty malformed bytes and the native-failure errors
\* only when a native call failed.
C10_EmptyDataError ==
  last.op = "GetCertificateDataFromIdentityRef" =>
     /\ (last.out.status = errSecSuccess /\ ~last.out.null /\ Len(last.out.bytes) = 0)
        => (last.err # NoErr /\ ~IsParseError(last.err))
     /\ IsParseError(last.err) => Len(last.out.bytes) > 0
     /\ IsNativeFailure(last.err) => (last.out.status # errSecSuccess \/ last.out.null)

\* C11: when GetCertificateDataFromIdentityRef returns, the certificate it
\* copied from the identity and the data it copied from the certificate have
\* each been released once, and the identity passed in has not been released.
C11_CertificateHandlesReleased ==
  last.op = "GetCertificateDataFromIdentityRef" =>
     /\ ReleasedOnce(last.log)
     /\ \A i \in 1..Len(last.log) :
           ~(last.log[i].op = "release" /\ last.log[i].kind = "identity")

\* the positions of the log where `op` is applied to an object of `kind`
Positions(log, op, kind) ==
  {i \in 1..Len(log) : log[i].op = op /\ log[i].kind = kind}

\* C12: after a successful search FindIdentity has released the result array
\* exactly once, has released nothing but the array and the query, and has
\* retained every reference it accepted before it released the array; when
\* it returns no error the caller holds a reference to every handle returned.
C12_ReturnedHandlesOutliveArray ==
  (last.op = "FindIdentity" /\ last.status = errSecSuccess) =>
     /\ Cardinality(Positions(last.log, "release", "resultRefs")) = 1
     /\ \A i \in 1..Len(last.log) :
           last.log[i].op = "release" => last.log[i].kind \in {"resultRefs", "queryDict"}
     /\ \A i \in Positions(last.log, "retain", "identity") :
        \A j \in Positions(last.log, "release", "resultRefs") : i < j
     /\ last.err = NoErr =>
           \A k \in 1..Len(last.ret) :
              /\ owned[last.ret[k].KeychainRef] >= 1
              /\ \E i \in Positions(last.log, "retain", "identity") :
                    last.log[i].id = last.ret[k].KeychainRef

\* two handles were returned, both retained before the array was released
C12_Witness ==
  /\ last.op = "FindIdentity"
  /\ last.err = NoErr
  /\ Len(last.ret) = 2
  /\ \A k \in 1..2 : owned[last.ret[k].KeychainRef] = 1
  /\ Cardinality(Positions(last.log, "release", "resultRefs")) = 1

IsExportError(e, status) ==
  e = Err("SecItemExport: error (OSStatus)", status)
IsEmptyExportError(e) ==
  IsError(e, "ExportFromKeychain: failed to convert export data - nil or empty")

\* C13: ExportFromKeychain writes the file at most once, and only when
\* SecItemExport returned errSecSuccess and the exported bytes are not empty;
\* a non-success status gives the export error carrying that status and empty
\* bytes give the empty-export error, both without a write.
C13_WriteOnlyAfterGoodExport ==
  last.op = "ExportFromKeychain" =>
     /\ Len(last.writes) <= 1
     /\ last.writes # <<>> =>
           /\ last.exported
           /\ last.out.status = errSecSuccess
           /\ last.out.bytes # <<>>
           /\ last.writes[1].bytes = last.out.bytes
     /\ (last.exported /\ last.out.status # errSecSuccess) =>
           (IsExportError(last.err, last.out.status) /\ last.writes = <<>>)
     /\ (last.exported /\ last.out.status = errSecSuccess /\ last.out.bytes = <<>>) =>
           (IsEmptyExportError(last.err) /\ last.writes = <<>>)

\* the export succeeded with empty data: the error, and no write
C13_Witness ==
  /\ last.op = "ExportFromKeychain"
  /\ last.exported
  /\ last.out.status = errSecSuccess
  /\ last.out.bytes = <<>>
  /\ IsEmptyExportError(last.err)
  /\ last.writes = <<>>

\* C14: when fileutil.WriteBytesToFile fails, ExportFromKeychain returns the
\* writer's error value itself.
C14_WriteErrorUnmodified ==
  (last.op = "ExportFromKeychain" /\ last.writes # <<>> /\ last.out.writeErr # NoErr) =>
     last.err = last.out.writeErr

IsKeyMissingError(e) == IsError(e, "getCFDictValueRef: Key doesn't exist")

\* C15: getCFDictValueRef answers a key that is not in the dictionary with
\* the key-missing error and no value, for the label and for the reference of
\* every entry of the keychain; FindIdentity returns an error and no record
\* when an entry has no label key or an accepted entry has no reference key.
C15_AbsentKeyFails ==
  /\ \A i \in 1..Len(store) : \A key \in {"labl", "v_Ref"} :
        store[i][key] = Absent =>
           /\ IsKeyMissingError(getCFDictValueRef(store[i], key).err)
           /\ getCFDictValueRef(store[i], key).val = NullVal
  /\ (/\ last.op = "FindIdentity"
      /\ last.status = errSecSuccess
      /\ \E i \in 1..Len(store) :
            \/ store[i].labl = Absent
            \/ /\ getCFDictValueUTF8String(store[i], "labl").err = NoErr
               /\ LabelMatches(getCFDictValueUTF8String(store[i], "labl").val,
                               last.label, last.full)
               /\ store[i].v_Ref = Absent)
     => (last.err # NoErr /\ last.ret = <<>>)

\* an accepted entry without the reference key aborted the search
C15_Witness ==
  /\ last.op = "FindIdentity"
  /\ IsError(last.err, "FindIdentity: failed to get 'v_Ref' property")
  /\ IsKeyMissingError(Tail(last.err))
  /\ \E i \in 1..Len(store) : store[i].labl # Absent /\ store[i].v_Ref = Absent
  /\ last.ret = <<>>

\* the references to identity h that the log takes and does not give back:
\* CFRetain calls, and the retains of an array that is never released, less
\* the CFRelease calls on h
NetRetained(log, h) ==
  Cardinality({i \in 1..Len(log) : log[i].kind = "identity" /\ log[i].id = h
                                   /\ log[i].op = "retain"})
  + (IF Positions(log, "release", "cfArrayForExport") = {}
     THEN Cardinality({i \in 1..Len(log) : log[i].kind = "identity" /\ log[i].id = h
                                           /\ log[i].op = "retainByArray"})
     ELSE 0)
  - Cardinality({i \in 1..Len(log) : log[i].kind = "identity" /\ log[i].id = h
                                     /\ log[i].op = "release"})

\* C16: when ExportFromKeychain returns, the retain count of every identity
\* it was given is what it was before the call, and it has released none of
\* them.
C16_ExportLeavesHandlesUnchanged ==
  last.op = "ExportFromKeychain" =>
     \A h \in Handles :
        /\ NetRetained(last.log, h) = 0
        /\ \A i \in 1..Len(last.log) :
              ~(last.log[i].op = "release" /\ last.log[i].kind = "identity"
                /\ last.log[i].id = h)

\* the records of the list that carry handle h
Occurrences(refs, h) == Cardinality({k \in 1..Len(refs) : refs[k].KeychainRef = h})

\* C17: when FindAndValidateIdentity returns, every handle the inner
\* FindIdentity retained is in the list returned or has been released.
C17_ValidationKeepsNoHiddenHandle ==
  last.op = "FindAndValidateIdentity" =>
     \A h \in Handles : NetRetained(last.log, h) = Occurrences(last.ret, h)

\* C18: when FindIdentity returns an extraction error, every handle it had
\* retained for an earlier entry has been released.
C18_AbortReleasesRetained ==
  (last.op = "FindIdentity" /\ last.err # NoErr) =>
     \A h \in Handles : NetRetained(last.log, h) = 0

=============================================================================
